---- MODULE Spec2Model ----
(***************************************************************************)
(* bizzBook: the invoice-creation / stock-decrement workflow.              *)
(*                                                                         *)
(* The state is the product collection and the invoice collection of the   *)
(* document store, the wall clock, and one record per HTTP request in      *)
(* flight.  Every `await` of a handler that reaches the store is one       *)
(* atomic step; the synchronous code between two awaits belongs to the     *)
(* step that follows the earlier await, and a request arrives with the     *)
(* step of its first await (it touches nothing shared before).             *)
(***************************************************************************)
EXTENDS Integers, Sequences, FiniteSets, TLC

\* ------------------------------------------------------------------ bounds
MaxQty == 3         \* largest quantity a request asks for
MaxItems == 2       \* longest products list of a POST /invoice body
MaxStock == 5       \* quantity of product A in the initial store
MaxClock == 1       \* latest value Date.now() returns
MaxLoad == 3        \* work issued: entries of purchase requests + product admin requests

\* ------------------------------------------------------------- input sets
Reqs == {"r1", "r2"}
Customers == {"c1", "c2"}
ProductIds == {"A", "B", "Z"}
\* the names and prices PUT /product/:id and POST /product bodies carry
NewNames == {"n2"}
NewPrices == {12}

VARIABLES
  products,   \* the Product collection: id -> document
  invoices,   \* the Invoice collection, in insertion order
  clock,      \* the latest value Date.now() has returned
  req,        \* per request: its body, the handler's locals and position, its response
  reserved,   \* history: per product, the sum of the quantities whose save was applied
  adminOps    \* history: the product create/update/delete requests that changed the store

vars == <<products, invoices, clock, req, reserved, adminOps>>

\* --------------------------------------------------------------- documents
\* productSchema: name, price, quantity (description, businessId, createdAt
\* are never read by the workflow).  live = the document is in the store.
\* deleted = the id was in the store once; ids are never handed out twice.
NoProduct == [live |-> FALSE, deleted |-> FALSE, name |-> "", price |-> 0, quantity |-> 0]

Product(n, p, q) == [live |-> TRUE, deleted |-> FALSE, name |-> n, price |-> p, quantity |-> q]

\* productModel.findById: the stored document, or null
findById(id) == products[id]

NoResp == [status |-> 0, message |-> "", productId |-> "", remaining |-> 0, invoice |-> 0]

Resp(s, m) == [NoResp EXCEPT !.status = s, !.message = m]

Idle ==
  [kind |-> "idle", pc |-> "idle", user |-> "", isArray |-> TRUE, items |-> <<>>,
   idx |-> 0, product |-> NoProduct, invoiceProducts |-> <<>>, totalAmount |-> 0,
   cause |-> "", saves |-> <<>>, resp |-> NoResp]

\* history of one applied save: by how much the stored quantity went down and
\* the stored price at that moment
Saved(id, product) ==
  [reduced |-> products[id].quantity - product.quantity, price |-> products[id].price]

Item(id, q) == [product |-> id, quantity |-> q]

RECURSIVE SeqsUpTo(_, _)
SeqsUpTo(S, n) ==
  IF n = 0 THEN {<<>>}
  ELSE LET shorter == SeqsUpTo(S, n - 1)
       IN shorter \cup {Append(s, x) : s \in {t \in shorter : Len(t) = n - 1}, x \in S}

\* the {product, quantity} entries requests are built from: valid and invalid
\* quantities of the stocked product A, the out-of-stock product B, and the
\* id Z that no document has
Items ==
  {Item("A", MaxQty - 1), Item("A", MaxQty), Item("A", 0), Item("A", -1),
   Item("B", MaxQty), Item("Z", MaxQty - 1)}

Bodies == SeqsUpTo(Items, MaxItems)

\* req.user.userId of the token each request carries
UserOf(r) == IF r = "r1" THEN "c1" ELSE "c2"

\* ------------------------------------------------------------ POST /invoice
\* if (!Array.isArray(products) || products.length === 0)
ProductsListMissing(isArray, items) == ~isArray \/ Len(items) = 0

\* the check without its stock comparison
UnavailableNoStockCheck(product, quantity) == ~product.live

\* if (!product || product.quantity < quantity)
Unavailable(product, quantity) == ~product.live \/ product.quantity < quantity

\* const totalPrice = product.price * quantity
TotalPrice(product, quantity) == product.price * quantity

LineItem(id, product, quantity) ==
  [product |-> id, quantity |-> quantity, pricePerUnit |-> product.price,
   totalPrice |-> TotalPrice(product, quantity)]

\* product.quantity -= quantity
Decrement(product, quantity) == [product EXCEPT !.quantity = product.quantity - quantity]

\* product.save(): $set of the modified path `quantity` on the stored document
SaveQuantity(id, product) == [products EXCEPT ![id].quantity = product.quantity]

\* entries carried by the purchase requests issued so far
RECURSIVE LoadOf(_)
LoadOf(R) ==
  IF R = {} THEN 0
  ELSE LET r == CHOOSE x \in R : TRUE IN Len(req[r].items) + LoadOf(R \ {r})

\* the work issued so far
Load == LoadOf(Reqs) + adminOps

\* request r has not arrived yet
Arrives(r) == req[r].kind = "idle"

\* the loop iteration, but the line is put in front of the earlier lines
IterationPrepends(rq) ==
  LET item == rq.items[rq.idx]
      product == products[item.product]
  IN IF ~product.live \/ product.quantity < item.quantity
     THEN [rq EXCEPT !.pc = "done",
             !.cause = IF product.live THEN "InsufficientStock" ELSE "NotFound",
             !.resp = [status |-> 400, message |-> "Product unavailable or insufficient quantity",
                       productId |-> item.product, remaining |-> 0, invoice |-> 0]]
     ELSE [rq EXCEPT !.pc = "save",
             !.totalAmount = @ + product.price * item.quantity,
             !.invoiceProducts = <<[product |-> item.product, quantity |-> item.quantity,
                                    pricePerUnit |-> product.price,
                                    totalPrice |-> product.price * item.quantity]>> \o @,
             !.product = [product EXCEPT !.quantity = @ - item.quantity]]

\* one loop iteration up to `await product.save()`, on the request record rq
Iteration(rq) ==
  LET item == rq.items[rq.idx]
      product == findById(item.product)
  IN IF Unavailable(product, item.quantity)
     THEN [rq EXCEPT !.pc = "done",
             !.cause = IF product.live THEN "InsufficientStock" ELSE "NotFound",
             !.resp = [Resp(400, "Product unavailable or insufficient quantity")
                         EXCEPT !.productId = item.product]]
     ELSE [rq EXCEPT !.pc = "save",
             !.totalAmount = @ + TotalPrice(product, item.quantity),
             !.invoiceProducts = Append(@, LineItem(item.product, product, item.quantity)),
             !.product = Decrement(product, item.quantity)]

\* the handler without its check of the products list: an empty list skips
\* the loop and goes on to the insert
InvoiceStartNoListCheck(r, u, isArray, items) ==
  /\ req[r].kind = "idle"
  /\ Load + Len(items) <= MaxLoad
  /\ req' = [req EXCEPT ![r] =
       IF Len(items) = 0
       THEN [Idle EXCEPT !.kind = "invoice", !.pc = "insert", !.user = u,
                         !.isArray = isArray, !.items = items]
       ELSE Iteration([Idle EXCEPT !.kind = "invoice", !.pc = "find", !.user = u,
                                   !.items = items, !.idx = 1])]
  /\ UNCHANGED <<products, invoices, clock, reserved, adminOps>>

\* the handler up to its first `await product.save()` or its 400
InvoiceStart(r, u, isArray, items) ==
  /\ Arrives(r)
  /\ Load + Len(items) <= MaxLoad
  /\ req' = [req EXCEPT ![r] =
       IF ProductsListMissing(isArray, items)
       THEN [Idle EXCEPT !.kind = "invoice", !.pc = "done", !.user = u,
                         !.isArray = isArray, !.items = items,
                         !.resp = Resp(400, "Products list is required")]
       ELSE Iteration([Idle EXCEPT !.kind = "invoice", !.pc = "find", !.user = u,
                                   !.items = items, !.idx = 1])]
  /\ UNCHANGED <<products, invoices, clock, reserved, adminOps>>

\* the quantity entries 1..n of items took from product id
RECURSIVE Taken(_, _, _)
Taken(items, n, id) ==
  IF n = 0 THEN 0
  ELSE Taken(items, n - 1, id) + (IF items[n].product = id THEN items[n].quantity ELSE 0)

\* the loop iteration, but a failing entry puts the earlier entries' stock back
InvoiceFindRollback(r) ==
  /\ req[r].kind = "invoice" /\ req[r].pc = "find"
  /\ LET item == req[r].items[req[r].idx]
         product == products[item.product]
         fails == ~product.live \/ product.quantity < item.quantity
     IN /\ req' = [req EXCEPT ![r] =
             IF fails
             THEN [@ EXCEPT !.pc = "done",
                     !.cause = IF product.live THEN "InsufficientStock" ELSE "NotFound",
                     !.resp = [[status |-> 400, message |-> "Product unavailable or insufficient quantity",
                                productId |-> item.product, remaining |-> 0, invoice |-> 0]
                                 EXCEPT !.productId = item.product]]
             ELSE [@ EXCEPT !.pc = "save",
                     !.totalAmount = @ + product.price * item.quantity,
                     !.invoiceProducts = Append(@, [product |-> item.product, quantity |-> item.quantity,
                                                    pricePerUnit |-> product.price,
                                                    totalPrice |-> product.price * item.quantity]),
                     !.product = [product EXCEPT !.quantity = @ - item.quantity]]]
        /\ products' = IF fails
                       THEN [id \in ProductIds |->
                               [products[id] EXCEPT
                                  !.quantity = @ + Taken(req[r].items, req[r].idx - 1, id)]]
                       ELSE products
  /\ UNCHANGED <<invoices, clock, reserved, adminOps>>

\* a later loop iteration
InvoiceFind(r) ==
  /\ req[r].kind = "invoice" /\ req[r].pc = "find"
  /\ req' = [req EXCEPT ![r] = Iteration(@)]
  /\ UNCHANGED <<products, invoices, clock, reserved, adminOps>>

\* the save, but the loop is left after the first entry
InvoiceSaveLeavesLoop(r) ==
  /\ req[r].kind = "invoice" /\ req[r].pc = "save"
  /\ LET item == req[r].items[req[r].idx]
     IN IF ~products[item.product].live
        THEN /\ req' = [req EXCEPT ![r].pc = "done",
                                   ![r].resp = [status |-> 500, message |-> "Invoice creation failed",
                                                productId |-> "", remaining |-> 0, invoice |-> 0]]
             /\ UNCHANGED <<products, reserved>>
        ELSE /\ products' = [products EXCEPT ![item.product].quantity = req[r].product.quantity]
             /\ reserved' = [reserved EXCEPT ![item.product] = @ + item.quantity]
             /\ req' = [req EXCEPT ![r].idx = @ + 1,
                                   ![r].saves = Append(@, [reduced |-> products[item.product].quantity
                                                                        - req[r].product.quantity,
                                                           price |-> products[item.product].price]),
                                   ![r].pc = "insert"]
  /\ UNCHANGED <<invoices, clock, adminOps>>

\* the store applies the save; a document deleted meanwhile makes save() throw
InvoiceSave(r) ==
  /\ req[r].kind = "invoice" /\ req[r].pc = "save"
  /\ LET item == req[r].items[req[r].idx]
     IN IF ~products[item.product].live
        THEN /\ req' = [req EXCEPT ![r].pc = "done",
                                   ![r].resp = Resp(500, "Invoice creation failed")]
             /\ UNCHANGED <<products, reserved>>
        ELSE /\ products' = SaveQuantity(item.product, req[r].product)
             /\ reserved' = [reserved EXCEPT ![item.product] = @ + item.quantity]
             /\ req' = [req EXCEPT ![r].idx = @ + 1,
                                   ![r].saves = Append(@, Saved(item.product, req[r].product)),
                                   ![r].pc = IF req[r].idx = Len(req[r].items)
                                             THEN "insert" ELSE "find"]
  /\ UNCHANGED <<invoices, clock, adminOps>>

\* invoiceSchema.pre('validate'): invoiceNumber = `INV-${Date.now()}`
InvoiceNumber(now) == now

\* a collection without the index: nothing collides
CollidesNoIndex(number) == FALSE

\* unique index on invoiceNumber
Collides(number) == \E i \in DOMAIN invoices : invoices[i].invoiceNumber = number

\* request is history: the request that inserted the invoice
NewInvoice(r, now) ==
  [customer |-> req[r].user, products |-> req[r].invoiceProducts,
   totalAmount |-> req[r].totalAmount, purchaseDate |-> now,
   invoiceNumber |-> InvoiceNumber(now), request |-> r]

\* the insert, but a rejected insert puts the stock of the request's entries back
InvoiceInsertRollback(r, now) ==
  /\ req[r].kind = "invoice" /\ req[r].pc = "insert"
  /\ now >= clock
  /\ clock' = now
  /\ IF \E i \in DOMAIN invoices : invoices[i].invoiceNumber = now
     THEN /\ req' = [req EXCEPT ![r].pc = "done",
                                ![r].resp = [status |-> 500, message |-> "Invoice creation failed",
                                             productId |-> "", remaining |-> 0, invoice |-> 0]]
          /\ products' = [id \in ProductIds |->
                            [products[id] EXCEPT
                               !.quantity = @ + Taken(req[r].items, Len(req[r].items), id)]]
          /\ UNCHANGED invoices
     ELSE /\ invoices' = Append(invoices, NewInvoice(r, now))
          /\ req' = [req EXCEPT ![r].pc = "done",
                                ![r].resp = [status |-> 201, message |-> "Invoice created",
                                             productId |-> "", remaining |-> 0,
                                             invoice |-> Len(invoices) + 1]]
          /\ UNCHANGED products
  /\ UNCHANGED <<reserved, adminOps>>

\* new invoiceModel({...}); await invoice.save().  now is what Date.now()
\* returns: the clock never runs backwards, and clock keeps the latest value
InvoiceInsert(r, now) ==
  /\ req[r].kind = "invoice" /\ req[r].pc = "insert"
  /\ now >= clock
  /\ clock' = now
  /\ IF Collides(InvoiceNumber(now))
     THEN /\ req' = [req EXCEPT ![r].pc = "done",
                                ![r].resp = Resp(500, "Invoice creation failed")]
          /\ UNCHANGED invoices
     ELSE /\ invoices' = Append(invoices, NewInvoice(r, now))
          /\ req' = [req EXCEPT ![r].pc = "done",
                                ![r].resp = [Resp(201, "Invoice created")
                                               EXCEPT !.invoice = Len(invoices) + 1]]
  /\ UNCHANGED <<products, reserved, adminOps>>

\* ------------------------------------------------- PATCH /product/:id/quantity
\* if (typeof decrementBy !== 'number' || decrementBy <= 0)
InvalidDecrement(decrementBy) == decrementBy <= 0

\* if (decrementBy > product.quantity)
ExceedsStock(product, decrementBy) == decrementBy > product.quantity

\* findById and the checks up to `await product.save()`, on the request record rq
PatchFind(rq) ==
  LET item == rq.items[1]
      product == findById(item.product)
  IN IF ~product.live
     THEN [rq EXCEPT !.pc = "done", !.cause = "NotFound",
             !.resp = Resp(404, "Product not found")]
     ELSE IF product.quantity = 0
     THEN [rq EXCEPT !.pc = "done", !.cause = "InsufficientStock",
             !.resp = Resp(400, "Product is out of stock")]
     ELSE IF ExceedsStock(product, item.quantity)
     THEN [rq EXCEPT !.pc = "done", !.cause = "InsufficientStock",
             !.resp = [Resp(400, "Only N item(s) in stock")
                         EXCEPT !.remaining = product.quantity]]
     ELSE [rq EXCEPT !.pc = "save", !.product = Decrement(product, item.quantity)]

\* the handler up to `await product.save()` or its 400/404
PatchStart(r, u, id, decrementBy) ==
  /\ Arrives(r)
  /\ Load + 1 <= MaxLoad
  /\ req' = [req EXCEPT ![r] =
       IF InvalidDecrement(decrementBy)
       THEN [Idle EXCEPT !.kind = "patch", !.pc = "done", !.user = u,
                         !.items = <<Item(id, decrementBy)>>,
                         !.resp = Resp(400, "decrementBy must be a positive number")]
       ELSE PatchFind([Idle EXCEPT !.kind = "patch", !.pc = "find", !.user = u,
                                   !.items = <<Item(id, decrementBy)>>, !.idx = 1])]
  /\ UNCHANGED <<products, invoices, clock, reserved, adminOps>>

PatchSave(r) ==
  /\ req[r].kind = "patch" /\ req[r].pc = "save"
  /\ LET item == req[r].items[1]
     IN IF ~products[item.product].live
        THEN /\ req' = [req EXCEPT ![r].pc = "done",
                                   ![r].resp = Resp(500, "Purchase failed")]
             /\ UNCHANGED <<products, reserved>>
        ELSE /\ products' = SaveQuantity(item.product, req[r].product)
             /\ reserved' = [reserved EXCEPT ![item.product] = @ + item.quantity]
             /\ req' = [req EXCEPT ![r].pc = "done", ![r].idx = 2,
                                   ![r].saves = Append(@, Saved(item.product, req[r].product)),
                                   ![r].resp = [Resp(200, "Product purchased")
                                                  EXCEPT !.remaining = req[r].product.quantity]]
  /\ UNCHANGED <<invoices, clock, adminOps>>

\* ------------------------------------------------------------ /product CRUD
\* req.body of PUT /product/:id: the fields it carries (`fields`) and their values
UpdateBodies ==
  {[fields |-> {"name"}, name |-> n, price |-> 0, quantity |-> 0] : n \in NewNames}
  \cup {[fields |-> {"price"}, name |-> "", price |-> p, quantity |-> 0] : p \in NewPrices}

\* findByIdAndUpdate(id, req.body): $set of the fields the body carries
ApplyUpdate(product, body) ==
  [product EXCEPT
     !.name = IF "name" \in body.fields THEN body.name ELSE @,
     !.price = IF "price" \in body.fields THEN body.price ELSE @,
     !.quantity = IF "quantity" \in body.fields THEN body.quantity ELSE @]

\* PUT /product/:id; an absent document gives 404 and changes nothing
UpdateProduct(id, body) ==
  /\ Load < MaxLoad
  /\ IF products[id].live
     THEN /\ products' = [products EXCEPT ![id] = ApplyUpdate(@, body)]
          /\ adminOps' = adminOps + 1
     ELSE UNCHANGED <<products, adminOps>>
  /\ UNCHANGED <<invoices, clock, req, reserved>>

\* DELETE /product/:id; an absent document gives 404 and changes nothing
DeleteProduct(id) ==
  /\ Load < MaxLoad
  /\ IF products[id].live
     THEN /\ products' = [products EXCEPT ![id] = [NoProduct EXCEPT !.deleted = TRUE]]
          /\ adminOps' = adminOps + 1
     ELSE UNCHANGED <<products, adminOps>>
  /\ UNCHANGED <<invoices, clock, req, reserved>>

\* POST /product: a document under an id the store never used
CreateProduct(id, name, price, quantity) ==
  /\ Load < MaxLoad
  /\ ~products[id].live /\ ~products[id].deleted
  /\ adminOps' = adminOps + 1
  /\ products' = [products EXCEPT ![id] = Product(name, price, quantity)]
  /\ UNCHANGED <<invoices, clock, req, reserved>>

\* ---------------------------------------------------------- GET /invoice/:id
\* .populate('products.product', 'name'): the referenced document's name, or null
Populate(id) == IF products[id].live THEN products[id].name ELSE "null"

\* the representation, but with the product's current price in each line
RepresentationLivePrice(i) ==
  [customer |-> invoices[i].customer,
   products |-> [k \in DOMAIN invoices[i].products |->
                   [product |-> IF products[invoices[i].products[k].product].live
                                THEN products[invoices[i].products[k].product].name ELSE "null",
                    quantity |-> invoices[i].products[k].quantity,
                    pricePerUnit |-> products[invoices[i].products[k].product].price,
                    totalPrice |-> invoices[i].products[k].totalPrice]],
   totalAmount |-> invoices[i].totalAmount,
   purchaseDate |-> invoices[i].purchaseDate,
   invoiceNumber |-> invoices[i].invoiceNumber]

\* the representation res.json(invoice) sends
Representation(i) ==
  [customer |-> invoices[i].customer,
   products |-> [k \in DOMAIN invoices[i].products |->
                   [product |-> Populate(invoices[i].products[k].product),
                    quantity |-> invoices[i].products[k].quantity,
                    pricePerUnit |-> invoices[i].products[k].pricePerUnit,
                    totalPrice |-> invoices[i].products[k].totalPrice]],
   totalAmount |-> invoices[i].totalAmount,
   purchaseDate |-> invoices[i].purchaseDate,
   invoiceNumber |-> invoices[i].invoiceNumber]

\* the handler without its owner check
ForbiddenNoOwnerCheck(user, role, i) == FALSE

\* if (req.user.role === 'customer' && String(invoice.customer._id) !== req.user.userId)
Forbidden(user, role, i) == role = "customer" /\ invoices[i].customer # user

\* the handler reads and answers; body is <<>> unless the status is 200
GetInvoice(user, role, i) ==
  IF i \notin DOMAIN invoices THEN [status |-> 404, body |-> <<>>]
  ELSE IF Forbidden(user, role, i) THEN [status |-> 403, body |-> <<>>]
  ELSE [status |-> 200, body |-> <<Representation(i)>>]

\* ------------------------------------------------------------ specification
InitialProducts ==
  [id \in ProductIds |->
     IF id = "A" THEN Product("n1", 10, MaxStock)
     ELSE IF id = "B" THEN Product("n1", 10, 0)
     ELSE NoProduct]

Init ==
  /\ products = InitialProducts
  /\ invoices = <<>>
  /\ clock = 0
  /\ req = [r \in Reqs |-> Idle]
  /\ reserved = [id \in ProductIds |-> 0]
  /\ adminOps = 0

PurchaseNext ==
  \/ \E r \in {x \in Reqs : Arrives(x)}, items \in Bodies : InvoiceStart(r, UserOf(r), TRUE, items)
  \/ \E r \in Reqs : InvoiceStart(r, UserOf(r), FALSE, <<>>)
  \/ \E r \in Reqs : InvoiceFind(r)
  \/ \E r \in Reqs : InvoiceSave(r)
  \/ \E r \in Reqs, now \in 0 .. MaxClock : InvoiceInsert(r, now)
  \/ \E r \in {x \in Reqs : Arrives(x)}, item \in Items : PatchStart(r, UserOf(r), item.product, item.quantity)
  \/ \E r \in Reqs : PatchSave(r)

SpecPurchase == Init /\ [][PurchaseNext]_vars

AdminNext ==
  \/ \E id \in ProductIds, body \in UpdateBodies : UpdateProduct(id, body)
  \/ \E id \in ProductIds : DeleteProduct(id)
  \/ \E id \in ProductIds, n \in NewNames, p \in NewPrices : CreateProduct(id, n, p, MaxQty)

Next == PurchaseNext \/ AdminNext

Spec == Init /\ [][Next]_vars

\* ------------------------------------------------------------------ helpers
Started(r) == req[r].kind # "idle"

Done(r) == req[r].pc = "done"

\* the entries of request r that product.save() has persisted
SavedCount(r) == Len(req[r].saves)

CurrentItem(r) == req[r].items[req[r].idx]

\* r is a POST /invoice that stopped in its loop on an unavailable entry
Aborted(r) == req[r].kind = "invoice" /\ Done(r) /\ req[r].cause # ""

\* the invoices request r has inserted
InvoicesOf(r) == {i \in DOMAIN invoices : invoices[i].request = r}

Alone(r) == \A o \in Reqs \ {r} : ~Started(o)

\* ---------------------------------------------------------------------- C1
\* C1: in every state reached by interleaved invoice-creation and PATCH
\* quantity requests, every product's quantity on hand is >= 0.
QuantityNeverNegative == \A id \in ProductIds : products[id].quantity >= 0

\* two requests both had a decrement of A persisted
QuantityNeverNegativeWitness ==
  \E r1, r2 \in Reqs :
    /\ r1 # r2
    /\ SavedCount(r1) > 0 /\ SavedCount(r2) > 0
    /\ req[r1].items[1] = Item("A", MaxQty) /\ req[r2].items[1] = Item("A", MaxQty)
    /\ products["A"].quantity < MaxStock

\* ---------------------------------------------------------------------- C2
\* C2: for concurrent reservation attempts against one product with on-hand
\* quantity Q, the quantities of the attempts that report success sum to at
\* most Q.
ReservedWithinStock ==
  \A id \in ProductIds : reserved[id] <= InitialProducts[id].quantity

\* ---------------------------------------------------------------------- C3
\* C3: check and decrement are one atomic step: between a request's read of a
\* product and its persisted decrement nobody else writes that product, so
\* once no save is pending the quantity is the initial one minus everything
\* successfully reserved.
CheckAndDecrementAtomic ==
  /\ \A r \in Reqs :
       req[r].pc = "save" =>
         products[CurrentItem(r).product].quantity
           = req[r].product.quantity + CurrentItem(r).quantity
  /\ (\A r \in Reqs : req[r].pc # "save") =>
       \A id \in ProductIds :
         products[id].quantity = InitialProducts[id].quantity - reserved[id]

\* ---------------------------------------------------------------------- C4
\* entries are handled one at a time in submission order, and a request that
\* stopped on entry idx has read and saved exactly the entries before it,
\* names that entry's product and has inserted no invoice
AbortAtFirstFailure ==
  \A r \in Reqs :
    /\ req[r].kind = "invoice" =>
         \A k \in DOMAIN req[r].invoiceProducts :
           /\ req[r].invoiceProducts[k].product = req[r].items[k].product
           /\ req[r].invoiceProducts[k].quantity = req[r].items[k].quantity
    /\ Aborted(r) =>
         /\ req[r].idx \in DOMAIN req[r].items
         /\ Len(req[r].invoiceProducts) = req[r].idx - 1
         /\ SavedCount(r) = req[r].idx - 1
         /\ req[r].resp.status = 400
         /\ req[r].resp.productId = CurrentItem(r).product
         /\ InvoicesOf(r) = {}

\* the failure tells the reason: two failures that look the same to the
\* caller have the same cause
ReasonIdentified ==
  \A r1, r2 \in Reqs :
    Aborted(r1) /\ Aborted(r2) /\ req[r1].resp = req[r2].resp
      => req[r1].cause = req[r2].cause

\* C4: createInvoice handles the entries in submission order and stops at the
\* first one that is not found or exceeds the stock: nothing later is read or
\* decremented, no invoice is created, and the failure names that product and
\* the reason.
AbortNamesProductAndReason == AbortAtFirstFailure /\ ReasonIdentified

\* ---------------------------------------------------------------------- C5
\* a request that ran alone and stopped on entry idx leaves every product at
\* its initial quantity minus what the entries before idx took
EarlierDecrementsKept ==
  \A r \in Reqs :
    Aborted(r) /\ Alone(r) /\ adminOps = 0 =>
      /\ \A id \in ProductIds :
           products[id].quantity
             = InitialProducts[id].quantity - Taken(req[r].items, req[r].idx - 1, id)
      /\ invoices = <<>>
      /\ req[r].resp.status = 400 /\ req[r].resp.productId = CurrentItem(r).product

\* the step that stops the request writes no product
AbortWritesNothing ==
  [][\A r \in Reqs :
       req[r].kind = "invoice" /\ req[r].pc = "find" /\ req'[r].pc = "done"
         => products' = products]_vars

\* C5: when createInvoice stops at entry k the decrements of entries 1..k-1
\* stay applied (no rollback); [{A,2},{B,3}] with A at 5 and B at 0 leaves A
\* at 3, no invoice and a failure for B.
NoRollback == []EarlierDecrementsKept /\ AbortWritesNothing

NoRollbackWitness ==
  \E r \in Reqs :
    /\ Aborted(r) /\ Alone(r)
    /\ req[r].items = <<Item("A", MaxQty - 1), Item("B", MaxQty)>>
    /\ req[r].idx = 2
    /\ req[r].resp.productId = "B"
    /\ products["A"].quantity = MaxStock - (MaxQty - 1)
    /\ invoices = <<>>

\* ---------------------------------------------------------------------- C6
\* every line's total is quantity * pricePerUnit and the invoice total is the
\* sum of the line totals
RECURSIVE SumTotals(_, _)
SumTotals(lines, n) == IF n = 0 THEN 0 ELSE SumTotals(lines, n - 1) + lines[n].totalPrice

InvoiceTotals ==
  \A i \in DOMAIN invoices :
    /\ \A k \in DOMAIN invoices[i].products :
         invoices[i].products[k].totalPrice
           = invoices[i].products[k].quantity * invoices[i].products[k].pricePerUnit
    /\ invoices[i].totalAmount = SumTotals(invoices[i].products, Len(invoices[i].products))

\* every save of a created invoice's request lowered the stored quantity by
\* the quantity of its line
StockReducedByQuantity ==
  \A i \in DOMAIN invoices :
    \A k \in DOMAIN invoices[i].products :
      req[invoices[i].request].saves[k].reduced = invoices[i].products[k].quantity

\* C6: in every created invoice lineTotal = quantity * pricePerUnit and
\* totalAmount is the sum of the line totals, and each reserved product's
\* stock went down by exactly the requested quantity.
TotalsAndStockExact == InvoiceTotals /\ StockReducedByQuantity

\* ---------------------------------------------------------------------- C7
\* InvoiceFind or PatchFind has read the product of entry k of request r
WasRead(r, k) ==
  \/ req[r].idx > k
  \/ req[r].idx = k /\ req[r].pc \in {"save", "insert", "done"}

\* a 400 that was answered before any product was read
ValidationRejected(r) ==
  Done(r) /\ req[r].resp.status = 400 /\ req[r].cause = "" /\ req[r].idx = 0

\* C7: a reservation whose quantity is 0 or negative, as an entry of
\* createInvoice or as a single-product purchase, is rejected with a
\* validation error before any product quantity is read or changed.
NonPositiveRejected ==
  \A r \in Reqs :
    \A k \in DOMAIN req[r].items :
      req[r].items[k].quantity <= 0 =>
        /\ ~WasRead(r, k)
        /\ SavedCount(r) < k
        /\ req[r].kind = "patch" => ValidationRejected(r)

\* ---------------------------------------------------------------------- C8
\* C8: the invoice is inserted only after every entry of the request has been
\* reserved; a POST /invoice answered 201 has inserted exactly one invoice and
\* one that failed or is still running has inserted none.
InvoiceOnlyAfterAllReserved ==
  \A r \in Reqs :
    /\ \A i \in InvoicesOf(r) :
         /\ req[r].kind = "invoice"
         /\ SavedCount(r) = Len(req[r].items)
         /\ Len(invoices[i].products) = Len(req[r].items)
    /\ req[r].resp.status = 201 => Cardinality(InvoicesOf(r)) = 1
    /\ req[r].resp.status # 201 => InvoicesOf(r) = {}

\* a two-entry request got its invoice and another request failed without one
InvoiceOnlyAfterAllReservedWitness ==
  \E r, o \in Reqs :
    /\ req[r].resp.status = 201 /\ Len(req[r].items) = 2
    /\ Cardinality(InvoicesOf(r)) = 1
    /\ req[o].kind = "invoice" /\ Done(o) /\ req[o].resp.status \in {400, 500}

\* ---------------------------------------------------------------------- C9
\* no step changes or removes a stored invoice
StoredInvoicesFixed ==
  \A i \in DOMAIN invoices : i \in DOMAIN invoices' /\ invoices'[i] = invoices[i]

\* the representation without the populated product documents
Unpopulated(response) ==
  [status |-> response.status,
   body |-> [j \in DOMAIN response.body |->
               [response.body[j] EXCEPT
                  !.products = [k \in DOMAIN @ |-> [@[k] EXCEPT !.product = ""]]]]]

\* C9 as stated: once an invoice exists no operation changes or deletes it,
\* so two retrievals of it by id return identical representations.
RetrievalsIdentical ==
  [][/\ StoredInvoicesFixed
     /\ \A i \in DOMAIN invoices :
          GetInvoice(invoices[i].customer, "customer", i)'
            = GetInvoice(invoices[i].customer, "customer", i)]_vars

\* C9 amended: once an invoice exists no operation changes or deletes its
\* stored fields, and two retrievals of it return representations that are
\* identical except for the populated product documents.
StoredFieldsIdentical ==
  [][/\ StoredInvoicesFixed
     /\ \A i \in DOMAIN invoices :
          Unpopulated(GetInvoice(invoices[i].customer, "customer", i))'
            = Unpopulated(GetInvoice(invoices[i].customer, "customer", i))]_vars

\* an invoice can be retrieved whose product has been renamed or deleted
StoredFieldsIdenticalWitness ==
  \E i \in DOMAIN invoices :
    /\ adminOps > 0
    /\ \E k \in DOMAIN invoices[i].products :
         Populate(invoices[i].products[k].product) # "n1"
    /\ GetInvoice(invoices[i].customer, "customer", i).status = 200

\* --------------------------------------------------------------------- C10
\* C10: each line's pricePerUnit is the product's price in effect at the
\* moment the entry's decrement was persisted, also when the price is updated
\* during the request, and it does not change once the invoice exists.
PriceAtReservation ==
  /\ [](\A i \in DOMAIN invoices :
         \A k \in DOMAIN invoices[i].products :
           invoices[i].products[k].pricePerUnit = req[invoices[i].request].saves[k].price)
  /\ [][\A i \in DOMAIN invoices :
          i \in DOMAIN invoices' /\ invoices'[i].products = invoices[i].products]_vars

\* --------------------------------------------------------------------- C11
\* r was answered a failure because findById returned null
NotFoundFailure(r) == Done(r) /\ req[r].cause = "NotFound"

\* the failure says that the product does not exist: no request that failed
\* for lack of stock gets the same status and message
NotFoundTold ==
  \A r \in Reqs :
    NotFoundFailure(r) =>
      /\ req[r].resp.status \in {400, 404}
      /\ \A o \in Reqs :
           Done(o) /\ req[o].cause = "InsufficientStock" =>
             <<req[o].resp.status, req[o].resp.message>>
               # <<req[r].resp.status, req[r].resp.message>>

\* the step that finds no document writes no product
NotFoundWritesNothing ==
  [][\A r \in Reqs :
       ~NotFoundFailure(r) /\ NotFoundFailure(r)' => products' = products]_vars

\* C11: a reservation naming a product id that does not exist fails with
\* NotFound and leaves the quantity of every product unchanged.
NotFoundLeavesStock == []NotFoundTold /\ NotFoundWritesNothing

\* --------------------------------------------------------------------- C12
DistinctInvoiceNumbers ==
  \A i, j \in DOMAIN invoices :
    i # j => invoices[i].invoiceNumber # invoices[j].invoiceNumber

\* an insert whose timestamp gives a stored number stores nothing and answers
\* the failure; any other insert stores the invoice under that number
CollisionRejected ==
  [][\A r \in Reqs :
       req[r].pc = "insert" /\ req'[r].pc = "done" =>
         IF \E i \in DOMAIN invoices : invoices[i].invoiceNumber = InvoiceNumber(clock')
         THEN /\ invoices' = invoices
              /\ req'[r].resp.status = 500
              /\ req'[r].resp.message = "Invoice creation failed"
         ELSE /\ Len(invoices') = Len(invoices) + 1
              /\ invoices'[Len(invoices')].invoiceNumber = InvoiceNumber(clock')
              /\ req'[r].resp.status = 201]_vars

\* C12: all stored invoices have pairwise distinct invoiceNumbers; an invoice
\* created at the timestamp of a stored one is rejected with a failure the
\* caller sees and is not stored.
InvoiceNumbersUnique == []DistinctInvoiceNumbers /\ CollisionRejected

\* a request that reserved everything was refused at the timestamp of the
\* invoice another request had stored
InvoiceNumbersUniqueWitness ==
  \E r, o \in Reqs :
    /\ r # o
    /\ req[r].kind = "invoice" /\ Done(r) /\ req[r].resp.status = 500
    /\ SavedCount(r) = Len(req[r].items) /\ InvoicesOf(r) = {}
    /\ \E i \in InvoicesOf(o) : invoices[i].invoiceNumber = InvoiceNumber(clock)

\* --------------------------------------------------------------------- C13
\* C13: createInvoice with an item list that is missing, not a sequence or
\* empty fails with a validation error, changes no product quantity and
\* creates no invoice: it is answered 400 on arrival, before any product is
\* read, and never saves or inserts anything.
MissingListRejected ==
  \A r \in Reqs :
    req[r].kind = "invoice" /\ ProductsListMissing(req[r].isArray, req[r].items) =>
      /\ ValidationRejected(r)
      /\ req[r].resp.message = "Products list is required"
      /\ SavedCount(r) = 0
      /\ InvoicesOf(r) = {}

\* one request came without a list and one with an empty list, next to stock
\* that is as it was
MissingListRejectedWitness ==
  \E r, o \in Reqs :
    /\ req[r].kind = "invoice" /\ ~req[r].isArray /\ req[r].resp.status = 400
    /\ req[o].kind = "invoice" /\ req[o].isArray /\ req[o].items = <<>>
    /\ req[o].resp.status = 400
    /\ \A id \in ProductIds : products[id] = InitialProducts[id]
    /\ invoices = <<>>

\* --------------------------------------------------------------------- C14
\* C14: a created invoice has a non-empty products list with exactly one line
\* per entry of the request, in submission order: line k carries the product
\* and the quantity of entry k.
LinesFollowRequest ==
  \A i \in DOMAIN invoices :
    LET items == req[invoices[i].request].items
        lines == invoices[i].products
    IN /\ Len(lines) >= 1
       /\ Len(lines) = Len(items)
       /\ \A k \in DOMAIN lines :
            /\ lines[k].product = items[k].product
            /\ lines[k].quantity = items[k].quantity

\* an invoice of two lines with different quantities, answered 201
LinesFollowRequestWitness ==
  \E i \in DOMAIN invoices :
    /\ Len(invoices[i].products) = 2
    /\ invoices[i].products[1].quantity # invoices[i].products[2].quantity
    /\ req[invoices[i].request].resp.status = 201
    /\ req[invoices[i].request].resp.invoice = i

\* --------------------------------------------------------------------- C15
\* C15: a requester with role customer retrieves an invoice by id only if the
\* invoice's customer is the requester: for an invoice of another user the
\* answer is 403 and carries no invoice.
CustomerSeesOwnOnly ==
  \A u \in Customers :
    \A i \in DOMAIN invoices :
      LET response == GetInvoice(u, "customer", i)
      IN /\ response.status = 200 => invoices[i].customer = u
         /\ invoices[i].customer # u =>
              response.status = 403 /\ response.body = <<>>

\* an invoice exists that its customer gets and the other customer is refused
CustomerSeesOwnOnlyWitness ==
  \E i \in DOMAIN invoices :
    \E u, o \in Customers :
      /\ invoices[i].customer = u /\ o # u
      /\ GetInvoice(u, "customer", i).status = 200
      /\ GetInvoice(u, "customer", i).body[1].invoiceNumber = invoices[i].invoiceNumber
      /\ GetInvoice(o, "customer", i).status = 403

\* --------------------------------------------------------------------- C16
\* the quantity the persisted entries of the requests R took from product id
RECURSIVE TakenBy(_, _)
TakenBy(R, id) ==
  IF R = {} THEN 0
  ELSE LET r == CHOOSE x \in R : TRUE
       IN Taken(req[r].items, SavedCount(r), id) + TakenBy(R \ {r}, id)

\* a request has saved each entry before the current one exactly once and no
\* other, and a POST /invoice that saved every entry and failed answers 500
\* and has no invoice
OneSavePerEntry ==
  /\ \A r \in Reqs :
       /\ Started(r) =>
            /\ SavedCount(r) = (IF req[r].idx = 0 THEN 0 ELSE req[r].idx - 1)
            /\ SavedCount(r) <= Len(req[r].items)
       /\ /\ req[r].kind = "invoice" /\ Done(r) /\ req[r].resp.status # 201
          /\ req[r].items # <<>> /\ SavedCount(r) = Len(req[r].items)
          => /\ req[r].resp = Resp(500, "Invoice creation failed")
             /\ InvoicesOf(r) = {}
  /\ \A id \in ProductIds : reserved[id] = TakenBy(Reqs, id)

\* the insert that fails answers 500 and leaves invoices and products as they
\* are, and an answered request takes no further step
FailedInsertKeepsDecrements ==
  [][\A r \in Reqs :
       /\ req[r].pc = "insert" /\ req'[r].pc = "done" /\ req'[r].resp.status # 201 =>
            /\ req'[r].resp.status = 500
            /\ invoices' = invoices
            /\ products' = products
            /\ req'[r].saves = req[r].saves
       /\ Done(r) => req'[r] = req[r]]_vars

\* C16: the workflow never retries: within one purchase request each entry's
\* stock is decremented at most once, and when the insert of the invoice fails
\* after every entry was reserved the request ends with a failure the caller
\* sees, no invoice is stored and the decrements stay applied.
NeverRetries == []OneSavePerEntry /\ FailedInsertKeepsDecrements

\* an insert failed and the stock is still down by what both requests took
NeverRetriesWitness ==
  \E r \in Reqs :
    /\ req[r].kind = "invoice" /\ Done(r) /\ req[r].resp.status = 500
    /\ SavedCount(r) = Len(req[r].items) /\ SavedCount(r) >= 1
    /\ Taken(req[r].items, SavedCount(r), "A") > 0
    /\ products["A"].quantity = MaxStock - TakenBy(Reqs, "A")
    /\ Len(invoices) = 1

\* --------------------------------------------------------------------- C17
\* a step of a purchase request writes at most the quantity field of the
\* product its current entry names
PurchaseWritesNamedQuantity ==
  [][req' # req =>
       \A id \in ProductIds :
         products'[id] # products[id] =>
           /\ \E r \in Reqs :
                /\ req[r].pc = "save" /\ req'[r] # req[r]
                /\ CurrentItem(r).product = id
           /\ products'[id] = [products[id] EXCEPT !.quantity = products'[id].quantity]]_vars

\* a step of a purchase request raises no quantity
PurchaseOnlyLowers ==
  [][req' # req =>
       \A id \in ProductIds : products'[id].quantity <= products[id].quantity]_vars

\* C17: a purchase request (POST /invoice or PATCH quantity) changes only the
\* quantity field of the products it names, and only by lowering it; it never
\* changes a price nor the quantity of a product it does not name.
PurchaseLowersNamedOnly == PurchaseWritesNamedQuantity /\ PurchaseOnlyLowers

====
